---- MODULE Spec2Model ----
(***************************************************************************)
(* The YouTube batch/playlist pipeline of ai_tools: the command line       *)
(* routing of main(), run_youtube_batch, run_youtube, analyze_video and    *)
(* the string helpers extract_video_id and sanitize_filename.              *)
(*                                                                         *)
(* A string is a sequence of one-character strings, so that the regular    *)
(* expressions and the slicing of the source are computed character by     *)
(* character.  A message (an analysis body, an error text) is a sequence   *)
(* of phrases; the prefixes and substrings the source tests for are        *)
(* phrases of their own.                                                   *)
(***************************************************************************)
EXTENDS Integers, Sequences, FiniteSets, TLC

VARIABLES
    \* ---- the pure string helpers, applied on their own
    fn_pc,          \* "start", "once", "twice", "done"
    title,          \* sanitize_filename: the title passed in
    safe_title,     \* sanitize_filename: the value returned
    resanitized,    \* sanitize_filename applied to its own result
    url,            \* extract_video_id: the string passed in
    embedded,       \* the video ID the string was built around (<<>>: none)
    extracted,      \* extract_video_id: the value returned
    raw_analysis,   \* analyze_video: analysis as the LLM returned it
    analysis,       \* analyze_video: analysis after the two re.sub calls
    \* ---- the command line and the batch
    pc,             \* where the program stands
    mode,           \* "batch": run_youtube was called by run_youtube_batch;
                    \* "single": by main
    args,           \* the parsed command line
    video_urls,     \* run_youtube_batch: the parameter
    pos,            \* run_youtube_batch: URLs of video_urls expanded so far
    expanded_urls,  \* run_youtube_batch: the work list
    idx,            \* run_youtube_batch: enumerate's index (0 before the loop)
    results,        \* run_youtube_batch: the report
    \* ---- run_youtube and analyze_video, for the video being processed
    call,           \* run_youtube: the parameters
    video,          \* run_youtube: the video URL (None when not given)
    video_title,    \* analyze_video: video_title
    catalog,        \* analyze_video: transcript_list
    selected,       \* analyze_video: target_transcript_object, as its index
                    \* in the catalog (0: None)
    selected_language,
    attempt,        \* analyze_video: the retry loop's variable
    alt_i,          \* analyze_video: next catalog index of the loop over
                    \* the alternative transcripts
    fetched,        \* analyze_video: fetched_transcript_data, as the index of
                    \* the transcript it came from (0: None)
    transcript_text,
    prompt_text,
    ask_site,       \* analyze_video: which of the three operator prompts
    output_body,    \* run_youtube: output_body
    result,         \* run_youtube: the value returned
    \* ---- the world
    llm_key,        \* the provider's API key is set in the environment
    yt,             \* the transcripts the provider holds, by video ID
    files,          \* names of the files written
    clipboard,      \* what pyperclip holds
    posts,          \* messages posted to Slack
    \* ---- bookkeeping of the verification
    log,            \* per processed video of a batch: what run_youtube did
    trace,          \* the external calls made for the current video
    sleeps,         \* run_youtube_batch: number of time.sleep(0.5) so far
    pieces,         \* per input URL expanded: the URLs it stood for
    unresolved,     \* the positions of the input URLs whose playlist could
                    \* not be read
    faults,         \* environment failures so far
    fault_budget    \* the most environment failures followed in one run

fnvars == <<fn_pc, title, safe_title, resanitized, url, embedded, extracted,
            raw_analysis, analysis>>

batchvars == <<mode, args, video_urls, pos, expanded_urls, idx, results>>

avvars == <<video, video_title, catalog, selected, selected_language, attempt,
            alt_i, fetched, transcript_text, prompt_text, ask_site>>

worldvars == <<llm_key, yt, files, clipboard, posts, fault_budget>>

ghostvars == <<log, sleeps, pieces, unresolved>>

runvars == <<pc, batchvars, call, avvars, output_body, result, worldvars, ghostvars,
             trace, faults>>

vars == <<fnvars, runvars>>

(***************************************************************************)
(* Characters and strings                                                  *)
(***************************************************************************)
Digits == {"0","1","2","3","4","5","6","7","8","9"}
Lower == {"a","b","c","d","e","f","g","h","i","j","k","l","m",
          "n","o","p","q","r","s","t","u","v","w","x","y","z"}
Upper == {"A","B","C","D","E","F","G","H","I","J","K","L","M",
          "N","O","P","Q","R","S","T","U","V","W","X","Y","Z"}

\* the character class [0-9A-Za-z_-] of both patterns of extract_video_id
IdChars == Digits \cup Upper \cup Lower \cup {"_", "-"}

\* the length {11} both patterns of extract_video_id ask for
IdLen == 11

Fill(c, n) == [i \in 1..n |-> c]

\* s[i..j], empty when out of range
Slice(s, i, j) == IF i > j THEN <<>> ELSE SubSeq(s, i, j)

\* Python's  sub in s
Contains(sub, s) ==
    \E i \in 1..(Len(s) - Len(sub) + 1) : Slice(s, i, i + Len(sub) - 1) = sub

\* Python's  s.startswith(pre)
StartsWith(s, pre) == Len(s) >= Len(pre) /\ Slice(s, 1, Len(pre)) = pre

(***************************************************************************)
(* extract_video_id                                                        *)
(***************************************************************************)
\* ([0-9A-Za-z_-]{11}) matched at position j
IdRun(s, j) ==
    /\ j >= 1
    /\ j + IdLen - 1 <= Len(s)
    /\ \A k \in j..(j + IdLen - 1) : s[k] \in IdChars

\* where group 1 of (?:v=|\/)([0-9A-Za-z_-]{11}).* starts, when the pattern
\* matches at position i; 0 when it does not
Pattern1Group(s, i) ==
    IF s[i] = "v" /\ i + 1 <= Len(s) /\ s[i + 1] = "=" /\ IdRun(s, i + 2)
    THEN i + 2
    ELSE IF s[i] = "/" /\ IdRun(s, i + 1) THEN i + 1 ELSE 0

\* re.search: the leftmost position at which the first pattern matches
Pattern1Matches(s) == {i \in 1..Len(s) : Pattern1Group(s, i) # 0}

\* ^([0-9A-Za-z_-]{11})$ ; $ also matches before one trailing newline
Pattern2Matches(s) ==
    /\ IdRun(s, 1)
    /\ \/ Len(s) = IdLen
       \/ Len(s) = IdLen + 1 /\ s[Len(s)] = "\n"

extract_video_id(s) ==
    IF Pattern1Matches(s) # {}
    THEN LET i == CHOOSE m \in Pattern1Matches(s) :
                      \A n \in Pattern1Matches(s) : m <= n
             g == Pattern1Group(s, i)
         IN  Slice(s, g, g + IdLen - 1)
    ELSE IF Pattern2Matches(s) THEN Slice(s, 1, IdLen) ELSE s

(***************************************************************************)
(* sanitize_filename                                                       *)
(***************************************************************************)
\* the default of the parameter max_length
max_length == 100

\* [<>:"/\\|?*]
InvalidChars == {"<", ">", ":", "\"", "/", "\\", "|", "?", "*"}

\* [\s_]
RunChars == {" ", "\t", "\n", "\r", "_"}

\* the argument of strip and rstrip: '-. '
StripChars == {"-", ".", " "}

untitled_video == <<"u","n","t","i","t","l","e","d","-","v","i","d","e","o">>

RemoveInvalid(s) == SelectSeq(s, LAMBDA c : c \notin InvalidChars)

\* re.sub(r'[\s_]+', '-', s): every maximal run becomes one dash, which
\* stands where the run's first character stood
CollapseRuns(s) ==
    LET marked == [i \in 1..Len(s) |->
                     IF s[i] \notin RunChars THEN s[i]
                     ELSE IF i > 1 /\ s[i - 1] \in RunChars THEN "" ELSE "-"]
    IN  SelectSeq(marked, LAMBDA c : c # "")

\* the positions strip and rstrip stop at
Kept(s) == {i \in 1..Len(s) : s[i] \notin StripChars}

LStrip(s) ==
    IF Kept(s) = {} THEN <<>>
    ELSE Slice(s, CHOOSE i \in Kept(s) : \A j \in Kept(s) : i <= j, Len(s))

RStrip(s) ==
    IF Kept(s) = {} THEN <<>>
    ELSE Slice(s, 1, CHOOSE i \in Kept(s) : \A j \in Kept(s) : i >= j)

Strip(s) == RStrip(LStrip(s))

\* a faulty variant: the truncated title is not stripped again
sanitize_filename_no_rstrip(t, maxlen) ==
    LET stripped == Strip(CollapseRuns(RemoveInvalid(t)))
        cut == IF Len(stripped) > maxlen THEN Slice(stripped, 1, maxlen)
               ELSE stripped
    IN  IF cut = <<>> THEN untitled_video ELSE cut

sanitize_filename(t, maxlen) ==
    LET stripped == Strip(CollapseRuns(RemoveInvalid(t)))
        cut == IF Len(stripped) > maxlen
               THEN RStrip(Slice(stripped, 1, maxlen))
               ELSE stripped
    IN  IF cut = <<>> THEN untitled_video ELSE cut

(***************************************************************************)
(* The inputs of the string helpers                                        *)
(***************************************************************************)
\* longest title enumerated character by character
MaxTitleLen == 4
\* how far below max_length the long titles start
TitleSlack == 2
\* how far around IdLen the lengths of the bare strings go
IdSlack == 1

TitleChars == {"a", " ", "_", "-", ".", "?"}

RECURSIVE SeqsUpTo(_, _)
SeqsUpTo(S, n) ==
    IF n = 0 THEN {<<>>}
    ELSE LET shorter == SeqsUpTo(S, n - 1)
         IN  shorter \cup {s \o <<c>> : s \in shorter, c \in S}

\* the concatenation of the strings of ps
RECURSIVE Flatten(_)
Flatten(ps) == IF ps = <<>> THEN <<>> ELSE Head(ps) \o Flatten(Tail(ps))

ShortTitles == SeqsUpTo(TitleChars, MaxTitleLen)

\* titles around the truncation length: a head, a long filling, a tail
LongTitles ==
    {h \o Fill(c, n) \o t :
        h \in SeqsUpTo(TitleChars, 1), t \in SeqsUpTo(TitleChars, 1),
        c \in {"a", "-", " "},
        n \in (max_length - TitleSlack)..(max_length + 1)}

Titles == ShortTitles \cup LongTitles

IdA == <<"a","a","a","a","a","a","a","a","a","a","a">>
IdB == <<"d","Q","w","4","w","9","W","g","X","c","Q">>
IdC == <<"a","_","b","-","c","_","d","-","e","_","f">>
VideoIds == {IdA, IdB, IdC}

HostShort == <<"h","t","t","p","s",":","/","/","y","o","u","t","u",".","b","e","/">>
HostWww == <<"h","t","t","p","s",":","/","/","w","w","w",".","y","o","u","t","u","b","e",".","c","o","m","/">>
HostNoCookie == <<"h","t","t","p","s",":","/","/","y","o","u","t","u","b","e","-","n","o","c","o","o","k","i","e",".","c","o","m","/">>
WatchV == <<"w","a","t","c","h","?","v","=">>
EmbedPath == <<"e","m","b","e","d","/">>
VPath == <<"v","/">>
AttributionLink == <<"a","t","t","r","i","b","u","t","i","o","n","_","l","i","n","k","?","u","=","/">>

\* what precedes the ID in the recognized shapes:
\* youtu.be/ID, watch?v=ID, embed/ID, v/ID
ShapePrefixes ==
    { HostShort, HostWww \o WatchV, HostWww \o EmbedPath, HostWww \o VPath,
      WatchV, HostNoCookie \o EmbedPath, HostWww \o AttributionLink \o WatchV }

\* what follows the ID: nothing, or a query string
UrlSuffixes == { <<>>, <<"&","t","=","1","0">>, <<"?","s","i","=","a","b","c">> }

\* strings that are no URL: one character repeated, around the ID length
BareStrings ==
    {Fill(c, n) \o t : c \in {"a", "-", "9", "."},
                       n \in (IdLen - IdSlack)..(IdLen + IdSlack),
                       t \in {<<>>, <<"\n">>}}

(***************************************************************************)
(* Values of the pipeline                                                  *)
(***************************************************************************)
\* Python's None where a string is expected, and a key a dict does not hold
NoneStr == <<"<None>">>
Absent == <<"<absent>">>

UntitledVideo == <<"U","n","t","i","t","l","e","d"," ","V","i","d","e","o">>
UnknownTitle == <<"U","n","k","n","o","w","n"," ","T","i","t","l","e">>
DotMd == <<".","m","d">>

\* the video titles the metadata provider knows
TitleA == <<"H","o","w"," ","t","o",":"," ","A">>
TitleB == <<"B","_","s","i","d","e">>
TitleOf(id) == IF id = IdB THEN TitleB ELSE TitleA

\* the URLs of the command line
UrlA == HostShort \o IdA
UrlB == HostWww \o WatchV \o IdB
UrlC == HostShort \o IdC
BadUrl == <<"n","o","t","-","a","-","u","r","l">>
ListEq == <<"l","i","s","t","=">>
PlaylistQ == <<"p","l","a","y","l","i","s","t","?">>
PlaylistUrl1 == HostWww \o PlaylistQ \o ListEq \o <<"P","L","1">>
PlaylistUrl2 == HostWww \o PlaylistQ \o ListEq \o <<"P","L","2">>

\* the playlists the metadata provider knows, by playlist ID: the video IDs
\* in catalog order
PlaylistItems(id) ==
    IF id = <<"P","L","1">> THEN <<IdB, IdA>>
    ELSE IF id = <<"P","L","2">> THEN <<>>
    ELSE NoneStr

\* a transcript of a video's catalog
Transcript(lang, gen) == [language_code |-> lang, is_generated |-> gen]
Languages == {"en", "de"}

\* TranscriptList iterates the manually created transcripts first, then the
\* generated ones; each holds at most one transcript per language
ManualEn == Transcript("en", FALSE)
ManualDe == Transcript("de", FALSE)
GeneratedEn == Transcript("en", TRUE)
GeneratedDe == Transcript("de", TRUE)
CatalogOrder == <<ManualEn, ManualDe, GeneratedEn, GeneratedDe>>
Catalogs ==
    {SelectSeq(CatalogOrder, LAMBDA t : t \in S) :
        S \in SUBSET {ManualEn, ManualDe, GeneratedEn, GeneratedDe}}

\* the text of a fetched transcript: its formatted entries
TranscriptBody(t) ==
    <<"0:00: ", t.language_code,
      IF t.is_generated THEN " generated" ELSE " manual">>

\* the messages analyze_video returns in place of an analysis
ErrNoTranscripts == <<"Error:", " No transcripts available for this video.">>
ErrDeclined ==
    <<"Error:", " No transcript available and ", "user declined manual input", ".">>
ErrStrategies == <<"Error:", " All transcript retrieval strategies failed.">>
ErrDisabled == <<"Error:", " Transcripts disabled for this video.">>
ErrNotFound == <<"Error:", " Transcript not found or could not be retrieved">>
ErrNoData == <<"Error:", " No transcript data available for analysis.">>
ErrLlm == <<"Error:", " Failed to generate AI analysis.">>

\* what the operator may type when asked for a transcript
ManualText == <<"operator's notes">>
\* the notes analyze_video writes when the operator types nothing
NoteNoTranscript(t, u) ==
    <<"Video:", t, "URL:", u, "Note: ", "No transcript available">>
NoteFetchFailed(t, u) ==
    <<"Video:", t, "URL:", u, "Note: ", "Transcript fetch failed">>

\* what the LLM may answer
HeaderArtifact == "**Video Analysis:**"
LlmTexts ==
    { <<"the analysis">>,
      <<HeaderArtifact, "the analysis">>,
      <<"Error:", " as the speaker puts it">>,
      <<>>,
      <<" ">> }

\* the value run_youtube returns; every key it may hold
Result(status, t, error, saved, content) ==
    [status |-> status, video_title |-> t, error |-> error,
     saved_file |-> saved, content |-> content]
\* run_youtube fell off its except clauses: Python's None
NoneResult == Result("<None>", Absent, Absent, Absent, Absent)
NoResult == Result("", Absent, Absent, Absent, Absent)

NoCall ==
    [video |-> NoneStr, language |-> "", target |-> "", prompt_only |-> FALSE,
     dynamic_tags |-> FALSE, slack_thread_url |-> FALSE,
     slack_channel_name |-> FALSE, save_file |-> FALSE]

NoArgs ==
    [video |-> <<>>, language |-> "", target |-> "", prompt_only |-> FALSE,
     dynamic_tags |-> FALSE, slack_thread |-> FALSE, slack_channel |-> FALSE,
     save_file |-> FALSE]

NoResults == [total |-> 0, successful |-> 0, failed |-> 0, videos |-> <<>>]

\* the pipeline before main has run; also its state while a string helper
\* is applied on its own
InitRun ==
    /\ pc = "idle"
    /\ mode = ""
    /\ args = NoArgs
    /\ video_urls = <<>>
    /\ pos = 0
    /\ expanded_urls = <<>>
    /\ idx = 0
    /\ results = NoResults
    /\ call = NoCall
    /\ video = NoneStr
    /\ video_title = UnknownTitle
    /\ catalog = <<>>
    /\ selected = 0
    /\ selected_language = ""
    /\ attempt = 0
    /\ alt_i = 0
    /\ fetched = 0
    /\ transcript_text = <<>>
    /\ prompt_text = <<>>
    /\ ask_site = 0
    /\ output_body = NoneStr
    /\ result = NoResult
    /\ llm_key = TRUE
    /\ yt = [id \in VideoIds |-> <<>>]
    /\ files = {}
    /\ clipboard = NoneStr
    /\ posts = <<>>
    /\ log = <<>>
    /\ trace = <<>>
    /\ sleeps = 0
    /\ pieces = <<>>
    /\ unresolved = {}
    /\ faults = 0
    /\ fault_budget = 0

(***************************************************************************)
(* The string helpers applied on their own                                 *)
(***************************************************************************)
InitFn ==
    /\ fn_pc = "idle"
    /\ title = <<>>
    /\ safe_title = <<>>
    /\ resanitized = <<>>
    /\ url = <<>>
    /\ embedded = <<>>
    /\ extracted = <<>>
    /\ raw_analysis = <<>>
    /\ analysis = <<>>

InitSanitize ==
    /\ InitRun
    /\ fn_pc = "start"
    /\ title \in Titles
    /\ safe_title = <<>>
    /\ resanitized = <<>>
    /\ url = <<>>
    /\ embedded = <<>>
    /\ extracted = <<>>
    /\ raw_analysis = <<>>
    /\ analysis = <<>>

Sanitize ==
    /\ fn_pc = "start"
    /\ safe_title' = sanitize_filename(title, max_length)
    /\ fn_pc' = "once"
    /\ UNCHANGED <<title, resanitized, url, embedded, extracted, raw_analysis,
                 analysis, runvars>>

SanitizeAgain ==
    /\ fn_pc = "once"
    /\ resanitized' = sanitize_filename(safe_title, max_length)
    /\ fn_pc' = "twice"
    /\ UNCHANGED <<title, safe_title, url, embedded, extracted, raw_analysis,
                 analysis, runvars>>

NextSanitize == Sanitize \/ SanitizeAgain

SpecSanitize == InitSanitize /\ [][NextSanitize]_vars

InitExtract ==
    /\ InitRun
    /\ fn_pc = "start"
    /\ title = <<>>
    /\ safe_title = <<>>
    /\ resanitized = <<>>
    /\ extracted = <<>>
    /\ raw_analysis = <<>>
    /\ analysis = <<>>
    /\ \/ \E p \in ShapePrefixes, id \in VideoIds, s \in UrlSuffixes :
            url = p \o id \o s /\ embedded = id
       \/ url \in BareStrings /\ embedded = <<>>
       \/ url \in VideoIds /\ embedded = <<>>

ExtractVideoId ==
    /\ fn_pc = "start"
    /\ extracted' = extract_video_id(url)
    /\ fn_pc' = "done"
    /\ UNCHANGED <<title, safe_title, resanitized, url, embedded, raw_analysis,
                 analysis, runvars>>

NextExtract == ExtractVideoId

SpecExtract == InitExtract /\ [][NextExtract]_vars

(***************************************************************************)
(* The post-processing of the analysis, character by character             *)
(***************************************************************************)
Newline == "\n"

\* the text of the pattern \*\*Video Analysis:\*\*
HeaderChars ==
    <<"*", "*", "V", "i", "d", "e", "o", " ",
      "A", "n", "a", "l", "y", "s", "i", "s", ":", "*", "*">>

\* re.sub(r'\n{3,}', '\n\n', s): of every maximal run of three or more
\* newlines the first two stay
CollapseNewlines(s) ==
    LET marked == [i \in 1..Len(s) |->
                     IF s[i] = Newline /\ i > 2 /\ s[i - 1] = Newline
                                       /\ s[i - 2] = Newline
                     THEN "" ELSE s[i]]
    IN  SelectSeq(marked, LAMBDA c : c # "")

\* re.sub(r'\*\*Video Analysis:\*\*', '', s): the matches are taken from the
\* left and do not overlap; the text is scanned once
RemoveHeader(s) ==
    LET n == Len(HeaderChars)
        matches == {i \in 1..(Len(s) - n + 1) :
                        Slice(s, i, i + n - 1) = HeaderChars}
        chosen[i \in 1..Len(s)] ==
            /\ i \in matches
            /\ \A j \in matches : (j < i /\ j > i - n) => ~chosen[j]
        marked == [i \in 1..Len(s) |->
                     IF \E j \in matches : j <= i /\ i < j + n /\ chosen[j]
                     THEN "" ELSE s[i]]
    IN  SelectSeq(marked, LAMBDA c : c # "")

\* the two substitutions in the order of the source
PostProcess(text) == RemoveHeader(CollapseNewlines(text))

\* what the texts an LLM returns are made of: newlines, other characters,
\* the header and the two halves of the header
MaxPieces == 4

RawPieces ==
    {<<Newline>>, <<"a">>, HeaderChars,
     Slice(HeaderChars, 1, 8), Slice(HeaderChars, 9, Len(HeaderChars))}

RawTexts == {Flatten(ps) : ps \in SeqsUpTo(RawPieces, MaxPieces)}

InitPostProcess ==
    /\ InitRun
    /\ fn_pc = "start"
    /\ title = <<>>
    /\ safe_title = <<>>
    /\ resanitized = <<>>
    /\ url = <<>>
    /\ embedded = <<>>
    /\ extracted = <<>>
    /\ raw_analysis \in RawTexts
    /\ analysis = <<>>

PostProcessAnalysis ==
    /\ fn_pc = "start"
    /\ analysis' = PostProcess(raw_analysis)
    /\ fn_pc' = "processed"
    /\ UNCHANGED <<title, safe_title, resanitized, url, embedded, extracted,
                   raw_analysis, runvars>>

NextPostProcess == PostProcessAnalysis

SpecPostProcess == InitPostProcess /\ [][NextPostProcess]_vars

(***************************************************************************)
(* main: the youtube command                                               *)
(***************************************************************************)
\* the most environment failures followed in one run of the command, and in
\* one call of run_youtube studied on its own
BatchFaults == 2
MaxFaults == 4

MayFail == faults < fault_budget

ResetVideo ==
    /\ video' = NoneStr
    /\ video_title' = UnknownTitle
    /\ catalog' = <<>>
    /\ selected' = 0
    /\ selected_language' = ""
    /\ attempt' = 0
    /\ alt_i' = 0
    /\ fetched' = 0
    /\ transcript_text' = <<>>
    /\ prompt_text' = <<>>
    /\ ask_site' = 0
    /\ output_body' = NoneStr
    /\ result' = NoResult
    /\ trace' = <<>>

\* validate_slack_args raises ValueError
SlackArgsInvalid(a) ==
    a.target = "slack" /\ (a.slack_thread <=> a.slack_channel)

\* args.target after the override that --save-file makes
TargetAfterOverride(a) ==
    IF a.save_file /\ a.target = "slack" THEN "markdown" ELSE a.target

\* 'list=' in url
HasListParam(u) == Contains(ListEq, u)

\* needs_batch
NeedsBatch(video_input) ==
    \/ Len(video_input) > 1
    \/ Len(video_input) = 1 /\ HasListParam(video_input[1])

\* batch processing without --save-file is refused (exit(1))
BatchRejected(a) ==
    NeedsBatch(a.video) /\ TargetAfterOverride(a) = "markdown" /\ ~a.save_file

\* the youtube command of main, up to the call of run_youtube_batch or
\* run_youtube
Main ==
    /\ pc = "main"
    /\ LET target == TargetAfterOverride(args)
       IN
       /\ args' = [args EXCEPT !.target = IF SlackArgsInvalid(args) THEN @ ELSE target]
       /\ IF SlackArgsInvalid(args) \/ BatchRejected(args)
          THEN /\ pc' = "exit"
               /\ UNCHANGED <<mode, video_urls, call>>
          ELSE IF NeedsBatch(args.video) /\ target = "markdown"
          THEN /\ pc' = "expand"
               /\ mode' = "batch"
               /\ video_urls' = args.video
               /\ call' = [video |-> NoneStr, language |-> args.language,
                           target |-> target, prompt_only |-> args.prompt_only,
                           dynamic_tags |-> args.dynamic_tags,
                           slack_thread_url |-> FALSE,
                           slack_channel_name |-> FALSE, save_file |-> TRUE]
          ELSE /\ pc' = "run_youtube"
               /\ mode' = "single"
               /\ call' = [video |-> IF args.video = <<>> THEN NoneStr
                                     ELSE args.video[1],
                           language |-> args.language,
                           target |-> target, prompt_only |-> args.prompt_only,
                           dynamic_tags |-> args.dynamic_tags,
                           slack_thread_url |-> args.slack_thread,
                           slack_channel_name |-> args.slack_channel,
                           save_file |-> args.save_file]
               /\ UNCHANGED video_urls
    /\ UNCHANGED <<fnvars, pos, expanded_urls, idx, results, avvars,
                   output_body, result, worldvars, ghostvars, trace, faults>>

(***************************************************************************)
(* run_youtube_batch                                                       *)
(***************************************************************************)
is_playlist_url(u) == Contains(ListEq, u) \/ Contains(PlaylistQ, u)

\* the maximal run of [0-9A-Za-z_-] that starts at position j
IdCharsRun(s, j) ==
    LET stops == {k \in j..Len(s) : s[k] \notin IdChars}
        last == IF stops = {} THEN Len(s)
                ELSE (CHOOSE k \in stops : \A m \in stops : k <= m) - 1
    IN  Slice(s, j, last)

\* extract_playlist_id: [?&]list=([0-9A-Za-z_-]+), the leftmost match; the
\* second pattern matches no string the first does not.  NoneStr: None
extract_playlist_id(u) ==
    LET starts == {i \in 1..Len(u) :
                      /\ u[i] \in {"?", "&"}
                      /\ Slice(u, i + 1, i + Len(ListEq)) = ListEq
                      /\ i + Len(ListEq) + 1 <= Len(u)
                      /\ u[i + Len(ListEq) + 1] \in IdChars}
    IN  IF starts = {} THEN NoneStr
        ELSE IdCharsRun(u, (CHOOSE i \in starts : \A j \in starts : i <= j)
                              + Len(ListEq) + 1)

\* what extract_playlist_videos returns when the API answers:
\* https://youtu.be/ID for each item, in the order of the pages
PlaylistVideos(u) ==
    LET items == PlaylistItems(extract_playlist_id(u))
    IN  [k \in 1..Len(items) |-> HostShort \o items[k]]

\* extract_playlist_videos has an answer: the URL holds a playlist ID and
\* the API knows it
PlaylistResolves(u) ==
    /\ extract_playlist_id(u) # NoneStr
    /\ PlaylistItems(extract_playlist_id(u)) # NoneStr

\* a faulty variant: the videos of a playlist are put in front of the work list
Spliced_in_front(work, u, vids) == vids \o work

\* expanded_urls.extend(playlist_videos)
Spliced(work, u, vids) == work \o vids

\* a faulty variant: a playlist that cannot be read is processed as a video
Skipped_kept_as_video(work, u) == Append(work, u)

\* except Exception: continue -- the work list is left as it is
Skipped(work, u) == work

\* one turn of the expansion loop
Expand ==
    /\ pc = "expand"
    /\ pos < Len(video_urls)
    /\ pos' = pos + 1
    /\ LET u == video_urls[pos + 1]
       IN  IF is_playlist_url(u)
           THEN \/ /\ PlaylistResolves(u)
                   /\ expanded_urls' = Spliced(expanded_urls, u, PlaylistVideos(u))
                   /\ pieces' = Append(pieces, PlaylistVideos(u))
                   /\ UNCHANGED <<faults, unresolved>>
                \/ /\ MayFail \/ ~PlaylistResolves(u)
                   /\ faults' = IF PlaylistResolves(u) THEN faults + 1 ELSE faults
                   /\ pieces' = Append(pieces, <<>>)
                   /\ unresolved' = unresolved \cup {pos + 1}
                   /\ expanded_urls' = Skipped(expanded_urls, u)
           ELSE /\ expanded_urls' = Append(expanded_urls, u)
                /\ pieces' = Append(pieces, <<u>>)
                /\ UNCHANGED <<faults, unresolved>>
    /\ UNCHANGED <<fnvars, pc, mode, args, video_urls, idx, results, call,
                   avvars, output_body, result, worldvars, log, sleeps, trace>>

\* after the expansion: the empty work list is refused, else the report is
\* created
BatchStart ==
    /\ pc = "expand"
    /\ pos = Len(video_urls)
    /\ IF expanded_urls = <<>>
       THEN pc' = "done" /\ UNCHANGED results
       ELSE /\ pc' = "loop"
            /\ results' = [total |-> Len(expanded_urls), successful |-> 0,
                           failed |-> 0, videos |-> <<>>]
    /\ UNCHANGED <<fnvars, mode, args, video_urls, pos, expanded_urls, idx,
                   call, avvars, output_body, result, worldvars, ghostvars,
                   trace, faults>>

\* the loop takes the next video and calls run_youtube
BatchCall ==
    /\ pc = "loop"
    /\ idx < Len(expanded_urls)
    /\ idx' = idx + 1
    /\ call' = [call EXCEPT !.video = expanded_urls[idx + 1]]
    /\ ResetVideo
    /\ pc' = "run_youtube"
    /\ UNCHANGED <<fnvars, mode, args, video_urls, pos, expanded_urls, results,
                   worldvars, ghostvars, faults>>

UnknownError == <<"Unknown error">>
NoneTypeError == <<"'NoneType' object has no attribute 'get'">>

Entry(u, t, status, error, saved) ==
    [url |-> u, title |-> t, status |-> status, error |-> error,
     saved_file |-> saved]

\* what the verification records of a processed video
LogEntry(r, tr) ==
    [video |-> video,
     result |-> r,
     ret |-> r.status,
     wrote |-> \E i \in 1..Len(tr) : tr[i] = "file written",
     declined |-> \E i \in 1..Len(tr) : tr[i] = "declined",
     copied |-> \E i \in 1..Len(tr) : tr[i] = "copied"]

\* a faulty variant: a result that is None ends the batch
Recorded_abort(rep, u, r, save_file) ==
    IF r = NoneResult THEN [rep EXCEPT !.total = Len(rep.videos)]
    ELSE IF r.status = "success"
    THEN [rep EXCEPT !.successful = @ + 1,
                     !.videos = Append(@, Entry(u, r.video_title, "success",
                                                Absent, Absent))]
    ELSE [rep EXCEPT !.failed = @ + 1,
                     !.videos = Append(@, Entry(u, r.video_title, "failed",
                                                UnknownError, Absent))]

\* a faulty variant: a cancelled video is counted in neither bucket
Recorded_skip_cancelled(rep, u, r, save_file) ==
    IF r # NoneResult /\ r.status = "success"
    THEN [rep EXCEPT !.successful = @ + 1,
                     !.videos = Append(@, Entry(u, r.video_title, "success",
                                                Absent, Absent))]
    ELSE IF r # NoneResult /\ r.status = "cancelled"
    THEN [rep EXCEPT !.videos = Append(@, Entry(u, r.video_title, "cancelled",
                                                Absent, Absent))]
    ELSE [rep EXCEPT !.failed = @ + 1,
                     !.videos = Append(@, Entry(u, Absent, "failed",
                                                UnknownError, Absent))]

\* the report after run_youtube has returned r for the video at u; a result
\* of None raises at result.get and is recorded by the except clause
Recorded(rep, u, r, save_file) ==
    IF r = NoneResult
    THEN [rep EXCEPT !.failed = @ + 1,
                     !.videos = Append(@, Entry(u, Absent, "failed",
                                                NoneTypeError, Absent))]
    ELSE IF r.status = "success"
    THEN [rep EXCEPT !.successful = @ + 1,
                     !.videos = Append(@, Entry(u, r.video_title, "success", Absent,
                                         IF save_file THEN r.saved_file
                                         ELSE Absent))]
    ELSE [rep EXCEPT !.failed = @ + 1,
                     !.videos = Append(@, Entry(u, r.video_title, "failed",
                                         IF r.error = Absent THEN UnknownError
                                         ELSE r.error, Absent))]

\* a faulty variant: a video whose processing raised is taken again
BatchRecord_again ==
    /\ pc = "returned"
    /\ mode = "batch"
    /\ IF result = NoneResult
       THEN /\ idx' = idx - 1
            /\ UNCHANGED <<results, sleeps, log>>
       ELSE /\ results' = Recorded(results, expanded_urls[idx], result,
                                   call.save_file)
            /\ sleeps' = IF idx < Len(expanded_urls)
                         THEN sleeps + 1 ELSE sleeps
            /\ log' = Append(log, LogEntry(result, trace))
            /\ UNCHANGED idx
    /\ pc' = "loop"
    /\ UNCHANGED <<fnvars, mode, args, video_urls, pos, expanded_urls,
                   call, avvars, output_body, result, worldvars, pieces,
                   unresolved, trace, faults>>

\* run_youtube has returned: the loop records the video and pauses
BatchRecord ==
    /\ pc = "returned"
    /\ mode = "batch"
    /\ results' = Recorded(results, expanded_urls[idx], result, call.save_file)
    /\ sleeps' = IF result # NoneResult /\ idx < Len(expanded_urls)
                 THEN sleeps + 1 ELSE sleeps
    /\ log' = Append(log, LogEntry(result, trace))
    /\ pc' = "loop"
    /\ UNCHANGED <<fnvars, mode, args, video_urls, pos, expanded_urls, idx,
                   call, avvars, output_body, result, worldvars, pieces,
                   unresolved, trace, faults>>

\* the loop is over: the summary is printed and the report returned
BatchSummary ==
    /\ pc = "loop"
    /\ idx = Len(expanded_urls)
    /\ pc' = "done"
    /\ UNCHANGED <<fnvars, batchvars, call, avvars, output_body, result,
                   worldvars, ghostvars, trace, faults>>

\* run_youtube has returned to main
SingleReturn ==
    /\ pc = "returned"
    /\ mode = "single"
    /\ pc' = "done"
    /\ UNCHANGED <<fnvars, batchvars, call, avvars, output_body, result,
                   worldvars, ghostvars, trace, faults>>

(***************************************************************************)
(* run_youtube                                                             *)
(***************************************************************************)
Http == <<"h","t","t","p">>
WwwYoutube == <<"w","w","w",".","y","o","u","t","u","b","e">>

Events(es) == trace' = trace \o es

\* run_youtube returns r
Return(r) == pc' = "returned" /\ result' = r

\* output_body.startswith("Error:")
IsErrorBody(body) == body # <<>> /\ body[1] = "Error:"

\* "user declined manual input" in output_body
SaysDeclined(body) ==
    \E i \in 1..Len(body) : body[i] = "user declined manual input"

\* not output_body or len(output_body.strip()) == 0
IsBlank(body) ==
    body = NoneStr \/ \A i \in 1..Len(body) : body[i] \in {" ", "\n"}

NoContent == <<"No content generated">>

\* a faulty variant: a body that starts with "Error:" is delivered like an
\* analysis
Judged_errors_delivered(t, body) ==
    IF IsBlank(body) THEN Result("failed", t, NoContent, Absent, Absent)
    ELSE NoResult

\* what run_youtube returns for the body analyze_video gave, before any
\* delivery; NoResult when the body is to be delivered
Judged(t, body) ==
    IF body # NoneStr /\ IsErrorBody(body)
    THEN IF SaysDeclined(body)
         THEN Result("cancelled", t, Absent, Absent, Absent)
         ELSE Result("failed", t, body, Absent, Absent)
    ELSE IF IsBlank(body) THEN Result("failed", t, NoContent, Absent, Absent)
    ELSE NoResult

\* analyze_video returns {"video_title": .., key: text}; run_youtube reads
\* the key of its mode and judges the body
ReturnAnalysis(key, text) ==
    LET wanted == IF call.prompt_only THEN "prompt" ELSE "analysis"
        body == IF key = wanted THEN text ELSE NoneStr
    IN  /\ output_body' = body
        /\ IF Judged(video_title, body) # NoResult
           THEN Return(Judged(video_title, body))
           ELSE /\ pc' = IF call.target = "slack" THEN "post" ELSE "deliver"
                /\ UNCHANGED result

\* the video run_youtube works on: the argument, or the URL taken from
\* Slack (or typed by the operator) when none was given
VideoCandidates ==
    IF call.video = NoneStr /\ call.target = "slack"
       /\ (call.slack_thread_url \/ call.slack_channel_name)
    THEN {UrlA, NoneStr}
    ELSE {call.video}

ElevenCharUrl == <<"h","t","t","p",":","/","/","a",".","b","c">>
ShortIdUrl == HostShort \o <<"s","h","o","r","t">>

\* the video references that reach run_youtube, and the video ID
\* extract_video_id gives for each of them
KnownVideos ==
    {UrlA, UrlB, UrlC, BadUrl, PlaylistUrl1, PlaylistUrl2, ElevenCharUrl,
     ShortIdUrl} \cup {HostShort \o id : id \in VideoIds}

VideoIdOf == [v \in KnownVideos |-> extract_video_id(v)]

\* the titles a video can have, and the file name sanitize_filename gives
\* for each of them
KnownTitles == {TitleA, TitleB, UntitledVideo, UnknownTitle}

FilenameOf == [t \in KnownTitles |-> sanitize_filename(t, max_length)]

\* the ValueErrors of run_youtube's validation
Invalid(v) ==
    \/ call.target = "slack" /\ ~call.slack_thread_url /\ ~call.slack_channel_name
    \/ v = NoneStr
    \/ ~StartsWith(v, Http) /\ ~StartsWith(v, WwwYoutube)
    \/ Len(VideoIdOf[v]) # IdLen

\* run_youtube up to the call of analyze_video: validation, get_llm
RunYoutube ==
    /\ pc = "run_youtube"
    /\ \E v \in VideoCandidates :
        /\ video' = v
        /\ IF Invalid(v) \/ ~llm_key
           THEN Return(NoneResult) /\ Events(<<"rejected">>)
           ELSE pc' = "title" /\ UNCHANGED result /\ Events(<<"get_llm">>)
    /\ UNCHANGED <<fnvars, batchvars, call, video_title, catalog, selected,
                   selected_language, attempt, alt_i, fetched, transcript_text,
                   prompt_text, ask_site, output_body, worldvars, ghostvars,
                   faults>>

TitleMark == "<title>"

\* final_output: the metadata and the body
FinalOutput(tags, body) ==
    IF tags = "" THEN <<"# ", TitleMark>> \o body
    ELSE <<"---", "title: ", TitleMark, "tags:", tags, "---">> \o body

\* the markdown branch: tags, file, clipboard
Deliver ==
    /\ pc = "deliver"
    /\ \E tags \in IF call.dynamic_tags /\ ~call.prompt_only
                   THEN {"tags", "error_generating_tags"} ELSE {""},
          saved \in IF call.save_file THEN BOOLEAN ELSE {FALSE},
          copied \in BOOLEAN :
        LET n == (IF tags = "error_generating_tags" THEN 1 ELSE 0)
                 + (IF call.save_file /\ ~saved THEN 1 ELSE 0)
                 + (IF copied THEN 0 ELSE 1)
            filename == FilenameOf[video_title] \o DotMd
            final_output == FinalOutput(tags, output_body)
        IN  /\ faults + n <= fault_budget
            /\ faults' = faults + n
            /\ files' = IF saved THEN files \cup {filename} ELSE files
            /\ clipboard' = IF copied THEN final_output ELSE clipboard
            /\ Events((IF saved THEN <<"file written">> ELSE <<>>)
                      \o (IF copied THEN <<"copied">> ELSE <<>>))
            /\ Return(IF copied
                      THEN Result("success", video_title, Absent,
                                  IF ~call.save_file THEN Absent
                                  ELSE IF saved THEN filename ELSE NoneStr,
                                  final_output)
                      ELSE NoneResult)
    /\ UNCHANGED <<fnvars, batchvars, call, avvars, output_body, llm_key, yt,
                   posts, fault_budget, ghostvars>>

SlackError == <<"Slack error">>

\* a faulty variant: a failure of the post is raised out of post_to_slack and
\* caught by run_youtube's handler, which returns None
Post_raises ==
    /\ pc = "post"
    /\ \/ /\ call.slack_thread_url
          /\ posts' = Append(posts, output_body)
          /\ Return(Result("success", video_title, Absent, Absent, Absent))
          /\ Events(<<"posted">>)
          /\ UNCHANGED faults
       \/ /\ MayFail \/ ~call.slack_thread_url
          /\ faults' = IF call.slack_thread_url THEN faults + 1 ELSE faults
          /\ Return(NoneResult)
          /\ Events(<<"post failed">>)
          /\ UNCHANGED posts
    /\ UNCHANGED <<fnvars, batchvars, call, avvars, output_body, llm_key, yt,
                   files, clipboard, fault_budget, ghostvars>>

\* the slack branch: post_to_slack, whose parse_slack_link raises on a thread
\* URL of None
Post ==
    /\ pc = "post"
    /\ \/ /\ call.slack_thread_url
          /\ posts' = Append(posts, output_body)
          /\ Return(Result("success", video_title, Absent, Absent, Absent))
          /\ Events(<<"posted">>)
          /\ UNCHANGED faults
       \/ /\ MayFail \/ ~call.slack_thread_url
          /\ faults' = IF call.slack_thread_url THEN faults + 1 ELSE faults
          /\ Return(Result("failed", video_title, SlackError, Absent, Absent))
          /\ Events(<<"post failed">>)
          /\ UNCHANGED posts
    /\ UNCHANGED <<fnvars, batchvars, call, avvars, output_body, llm_key, yt,
                   files, clipboard, fault_budget, ghostvars>>

(***************************************************************************)
(* analyze_video                                                           *)
(***************************************************************************)
\* a faulty variant: one more attempt
Attempts_four == 3 + 1

\* number of content fetches of the selected transcript: range(3)
Attempts == 3

Min(S) == CHOOSE i \in S : \A j \in S : i <= j

\* TranscriptList.find_transcript: a manually created transcript of the
\* language, else a generated one; 0: NoTranscriptFound
find_transcript(cat, lang) ==
    LET manual == {i \in 1..Len(cat) :
                      cat[i].language_code = lang /\ ~cat[i].is_generated}
        generated == {i \in 1..Len(cat) :
                      cat[i].language_code = lang /\ cat[i].is_generated}
    IN  IF manual # {} THEN Min(manual)
        ELSE IF generated # {} THEN Min(generated) ELSE 0

\* TranscriptList.find_generated_transcript; 0: NoTranscriptFound
find_generated_transcript(cat, lang) ==
    LET generated == {i \in 1..Len(cat) :
                      cat[i].language_code = lang /\ cat[i].is_generated}
    IN  IF generated # {} THEN Min(generated) ELSE 0

\* strategies 1 and 2 for one language: find_transcript, and on
\* NoTranscriptFound find_generated_transcript
Strategy(cat, lang) ==
    IF find_transcript(cat, lang) # 0 THEN find_transcript(cat, lang)
    ELSE find_generated_transcript(cat, lang)

\* target_transcript_object as an index of the catalog; 0: none (the catalog
\* is empty)
SelectTranscript(cat, lang) ==
    IF Strategy(cat, lang) # 0 THEN Strategy(cat, lang)
    ELSE IF lang # "en" /\ Strategy(cat, "en") # 0 THEN Strategy(cat, "en")
    ELSE IF cat # <<>> THEN 1
    ELSE 0

\* selected_language for the transcript chosen
SelectedLanguage(cat, lang) ==
    IF Strategy(cat, lang) # 0 THEN lang
    ELSE IF lang # "en" /\ Strategy(cat, "en") # 0 THEN "en"
    ELSE cat[1].language_code

\* the next transcript the loop over the alternatives fetches, from index
\* from on: one whose language_code differs from selected_language; 0: none
NextAlternative(cat, from, lang) ==
    LET others == {j \in from..Len(cat) : cat[j].language_code # lang}
    IN  IF others = {} THEN 0 ELSE Min(others)

\* has_actual_transcript
has_actual_transcript(text) ==
    /\ text # <<>>
    /\ text[1] # "Video:"
    /\ \A i \in 1..Len(text) : text[i] # "No transcript available"

\* prompt_text: the transcript template or the title-only template
BuildPrompt(text) ==
    IF has_actual_transcript(text)
    THEN <<"Analyze this YouTube video transcript", "[TRANSCRIPT]">> \o text
    ELSE <<"Analyze this YouTube video based on available information",
           TitleMark, "[AVAILABLE CONTENT]">> \o text

\* from "if not transcript_text" on: the prompt is built and, in prompt-only
\* mode, returned
Prompted(text) ==
    /\ transcript_text' = text
    /\ IF text = <<>>
       THEN ReturnAnalysis("analysis", ErrNoData) /\ UNCHANGED prompt_text
       ELSE /\ prompt_text' = BuildPrompt(text)
            /\ IF call.prompt_only
               THEN ReturnAnalysis("prompt", BuildPrompt(text))
               ELSE pc' = "llm" /\ UNCHANGED <<result, output_body>>

VideoId == VideoIdOf[video]

\* a faulty variant: the two placeholders are exchanged
TitleAfterFailure_swapped(raised) ==
    IF raised THEN UntitledVideo ELSE UnknownTitle

\* video_title after a failed lookup: get_video_title raised (the API key is
\* missing) and the initial value stays, or it caught the error of the API
\* call and returned its own placeholder
TitleAfterFailure(raised) ==
    IF raised THEN UnknownTitle ELSE UntitledVideo

\* get_video_title: the title; "Untitled Video" when the API call fails;
\* an exception (the title stays "Unknown Title") when the API key is missing
GetTitle ==
    /\ pc = "title"
    /\ \/ /\ VideoId \in VideoIds
          /\ video_title' = TitleOf(VideoId)
          /\ UNCHANGED faults
          /\ Events(<<"title">>)
       \/ /\ MayFail \/ VideoId \notin VideoIds
          /\ \E raised \in BOOLEAN :
                /\ video_title' = TitleAfterFailure(raised)
                /\ Events(<<IF raised THEN "title raised" ELSE "title error">>)
          /\ faults' = IF VideoId \in VideoIds THEN faults + 1 ELSE faults
    /\ pc' = "list"
    /\ UNCHANGED <<fnvars, batchvars, call, video, catalog, selected,
                   selected_language, attempt, alt_i, fetched, transcript_text,
                   prompt_text, ask_site, output_body, result, worldvars,
                   ghostvars>>

\* ytt_api.list and the choice of the transcript
ListTranscripts ==
    /\ pc = "list"
    /\ \/ /\ VideoId \in VideoIds
          /\ Events(<<"list">>)
          /\ catalog' = yt[VideoId]
          /\ LET sel == SelectTranscript(yt[VideoId], call.language)
             IN  IF sel = 0
                 THEN /\ ReturnAnalysis("analysis", ErrNoTranscripts)
                      /\ UNCHANGED <<selected, selected_language>>
                 ELSE /\ selected' = sel
                      /\ selected_language' =
                            SelectedLanguage(yt[VideoId], call.language)
                      /\ pc' = "fetch"
                      /\ UNCHANGED <<result, output_body>>
          /\ UNCHANGED faults
       \/ /\ MayFail \/ VideoId \notin VideoIds
          /\ faults' = IF VideoId \in VideoIds THEN faults + 1 ELSE faults
          /\ Events(<<"list failed">>)
          /\ UNCHANGED <<catalog, selected, selected_language>>
          /\ \/ ReturnAnalysis("analysis", ErrDisabled)
             \/ ReturnAnalysis("analysis", ErrNotFound)
             \/ pc' = "list again" /\ UNCHANGED <<result, output_body>>
    /\ UNCHANGED <<fnvars, batchvars, call, video, video_title, attempt, alt_i,
                   fetched, transcript_text, prompt_text, ask_site, worldvars,
                   ghostvars>>

\* one turn of the retry loop: target_transcript_object.fetch()
Fetch ==
    /\ pc = "fetch"
    /\ \/ /\ fetched' = selected
          /\ Prompted(TranscriptBody(catalog[selected]))
          /\ Events(<<"fetch">>)
          /\ UNCHANGED <<attempt, alt_i, ask_site, faults>>
       \/ \* the fetch fails; an outage counts once however often the
          \* fetch is retried
          /\ MayFail \/ attempt > 0
          /\ faults' = IF attempt = 0 THEN faults + 1 ELSE faults
          /\ IF attempt < Attempts - 1
             THEN /\ attempt' = attempt + 1
                  /\ Events(<<"fetch failed", "sleep">>)
                  /\ UNCHANGED <<pc, alt_i, ask_site>>
             ELSE /\ Events(<<"fetch failed">>)
                  /\ alt_i' = NextAlternative(catalog, 1, selected_language)
                  /\ IF NextAlternative(catalog, 1, selected_language) # 0
                     THEN pc' = "alternative" /\ UNCHANGED ask_site
                     ELSE pc' = "ask" /\ ask_site' = 1
                  /\ UNCHANGED attempt
          /\ UNCHANGED <<fetched, transcript_text, prompt_text, result,
                         output_body>>
    /\ UNCHANGED <<fnvars, batchvars, call, video, video_title, catalog,
                   selected, selected_language, worldvars, ghostvars>>

\* one turn of the loop over the alternative transcripts: alt_transcript.fetch()
FetchAlternative ==
    /\ pc = "alternative"
    /\ \/ /\ fetched' = alt_i
          /\ selected_language' = catalog[alt_i].language_code
          /\ Prompted(TranscriptBody(catalog[alt_i]))
          /\ Events(<<"alternative">>)
          /\ UNCHANGED <<alt_i, ask_site, faults>>
       \/ /\ MayFail
          /\ faults' = faults + 1
          /\ Events(<<"alternative failed">>)
          /\ alt_i' = NextAlternative(catalog, alt_i + 1, selected_language)
          /\ IF NextAlternative(catalog, alt_i + 1, selected_language) # 0
             THEN UNCHANGED <<pc, ask_site>>
             ELSE pc' = "ask" /\ ask_site' = 1
          /\ UNCHANGED <<fetched, selected_language, transcript_text,
                         prompt_text, result, output_body>>
    /\ UNCHANGED <<fnvars, batchvars, call, video, video_title, catalog,
                   selected, attempt, worldvars, ghostvars>>

\* the final fallback after an unexpected exception: ytt_api.list again
ListAgain ==
    /\ pc = "list again"
    /\ \/ /\ VideoId \in VideoIds
          /\ Events(<<"list again">>)
          /\ catalog' = yt[VideoId]
          /\ IF yt[VideoId] # <<>>
             THEN pc' = "fetch any" /\ UNCHANGED ask_site
             ELSE pc' = "ask" /\ ask_site' = 2
          /\ UNCHANGED faults
       \/ /\ MayFail \/ VideoId \notin VideoIds
          /\ faults' = IF VideoId \in VideoIds THEN faults + 1 ELSE faults
          /\ Events(<<"list again failed">>)
          /\ pc' = "ask" /\ ask_site' = 3
          /\ UNCHANGED catalog
    /\ UNCHANGED <<fnvars, batchvars, call, video, video_title, selected,
                   selected_language, attempt, alt_i, fetched, transcript_text,
                   prompt_text, output_body, result, worldvars, ghostvars>>

\* the final fallback: available_transcripts[0].fetch()
FetchAny ==
    /\ pc = "fetch any"
    /\ \/ /\ fetched' = 1
          /\ Prompted(TranscriptBody(catalog[1]))
          /\ Events(<<"fetch any">>)
          /\ UNCHANGED <<ask_site, faults>>
       \/ /\ MayFail
          /\ faults' = faults + 1
          /\ Events(<<"fetch any failed">>)
          /\ pc' = "ask" /\ ask_site' = 3
          /\ UNCHANGED <<fetched, transcript_text, prompt_text, result,
                         output_body>>
    /\ UNCHANGED <<fnvars, batchvars, call, video, video_title, catalog,
                   selected, selected_language, attempt, alt_i, worldvars,
                   ghostvars>>

\* Confirm.ask at one of its three sites: 1 in the retry loop, 2 in the
\* final fallback, 3 in the handler of the final fallback
Ask ==
    /\ pc = "ask"
    /\ \/ /\ pc' = "manual"
          /\ Events(<<"asked">>)
          /\ UNCHANGED <<ask_site, result, output_body, faults>>
       \/ /\ ReturnAnalysis("analysis", ErrDeclined)
          /\ Events(<<"asked", "declined">>)
          /\ UNCHANGED <<ask_site, faults>>
       \/ \* the prompt raises (no terminal to read from)
          /\ MayFail
          /\ faults' = faults + 1
          /\ Events(<<"ask failed">>)
          /\ IF ask_site = 1
             THEN ReturnAnalysis("analysis", ErrStrategies) /\ UNCHANGED ask_site
             ELSE IF ask_site = 2
             THEN ask_site' = 3 /\ UNCHANGED <<pc, result, output_body>>
             ELSE Return(NoneResult) /\ UNCHANGED <<ask_site, output_body>>
    /\ UNCHANGED <<fnvars, batchvars, call, video, video_title, catalog,
                   selected, selected_language, attempt, alt_i, fetched,
                   transcript_text, prompt_text, worldvars, ghostvars>>

\* transcript_text where "if not transcript_text" reads it, after the
\* operator typed `typed`: at site 1 the end of the retry loop overwrites it
\* with "" (fetched_transcript_data is None)
Typed(site, typed) ==
    IF site = 1 THEN <<>>
    ELSE IF typed # <<>> THEN typed
    ELSE IF site = 2 THEN NoteNoTranscript(TitleMark, "<url>")
    ELSE NoteFetchFailed(TitleMark, "<url>")

\* Prompt.ask: the operator types a transcript, or nothing
Manual ==
    /\ pc = "manual"
    /\ \E typed \in {ManualText, <<>>} :
          /\ Prompted(Typed(ask_site, typed))
          /\ Events(<<IF typed = <<>> THEN "typed nothing" ELSE "typed">>)
    /\ UNCHANGED <<fnvars, batchvars, call, video, video_title, catalog,
                   selected, selected_language, attempt, alt_i, fetched,
                   ask_site, worldvars, ghostvars, faults>>

\* the post-processing of the LLM's text: the header artifact is removed
PostProcessed(text) == SelectSeq(text, LAMBDA p : p # HeaderArtifact)

\* llm.invoke
Llm ==
    /\ pc = "llm"
    /\ \/ \E text \in LlmTexts :
             /\ ReturnAnalysis("analysis", PostProcessed(text))
             /\ Events(<<"llm">>)
             /\ UNCHANGED faults
       \/ /\ MayFail
          /\ faults' = faults + 1
          /\ ReturnAnalysis("analysis", ErrLlm)
          /\ Events(<<"llm failed">>)
    /\ UNCHANGED <<fnvars, batchvars, call, avvars, worldvars, ghostvars>>

(***************************************************************************)
(* The command as a whole, and run_youtube on its own                      *)
(***************************************************************************)
\* the positional arguments of the command line
VideoInputs ==
    { <<>>, <<UrlA>>, <<BadUrl>>, <<PlaylistUrl1>>, <<PlaylistUrl2>>,
      <<UrlA, UrlB>>, <<UrlC, PlaylistUrl1>>, <<PlaylistUrl1, UrlC>>,
      <<UrlA, BadUrl, UrlB>>, <<UrlC, PlaylistUrl2, UrlA>> }

\* what the transcript provider holds when the whole command runs
World ==
    [id \in VideoIds |->
        IF id = IdA THEN <<ManualEn, GeneratedDe>>
        ELSE IF id = IdB THEN <<GeneratedEn>>
        ELSE <<>>]

\* the parsed command lines: the Slack options are given with the slack
\* target only, and the language is the default
CommandLines ==
    [video : VideoInputs, language : {"en"}, target : {"markdown"},
     prompt_only : BOOLEAN, dynamic_tags : BOOLEAN, slack_thread : {FALSE},
     slack_channel : {FALSE}, save_file : BOOLEAN]
    \cup
    [video : VideoInputs, language : {"en"}, target : {"slack"},
     prompt_only : BOOLEAN, dynamic_tags : BOOLEAN, slack_thread : BOOLEAN,
     slack_channel : BOOLEAN, save_file : BOOLEAN]

\* the command line is parsed; the youtube command is about to run
Init ==
    /\ InitFn
    /\ pc = "main"
    /\ mode = ""
    /\ args \in CommandLines
    /\ video_urls = <<>>
    /\ pos = 0
    /\ expanded_urls = <<>>
    /\ idx = 0
    /\ results = NoResults
    /\ call = NoCall
    /\ video = NoneStr
    /\ video_title = UnknownTitle
    /\ catalog = <<>>
    /\ selected = 0
    /\ selected_language = ""
    /\ attempt = 0
    /\ alt_i = 0
    /\ fetched = 0
    /\ transcript_text = <<>>
    /\ prompt_text = <<>>
    /\ ask_site = 0
    /\ output_body = NoneStr
    /\ result = NoResult
    /\ llm_key \in BOOLEAN
    /\ yt = World
    /\ files = {}
    /\ clipboard = NoneStr
    /\ posts = <<>>
    /\ log = <<>>
    /\ trace = <<>>
    /\ sleeps = 0
    /\ pieces = <<>>
    /\ unresolved = {}
    /\ faults = 0
    /\ fault_budget = BatchFaults

Next ==
    \/ Main
    \/ Expand
    \/ BatchStart
    \/ BatchCall
    \/ BatchRecord
    \/ BatchSummary
    \/ SingleReturn
    \/ RunYoutube
    \/ GetTitle
    \/ ListTranscripts
    \/ Fetch
    \/ FetchAlternative
    \/ ListAgain
    \/ FetchAny
    \/ Ask
    \/ Manual
    \/ Llm
    \/ Deliver
    \/ Post

Spec == Init /\ [][Next]_vars

\* the program is one sequential process and every external call and every
\* operator prompt returns: while a step is enabled, a step is taken
SpecTerminates == Init /\ [][Next]_vars /\ WF_vars(Next)

\* references that hold no video ID: a URL of exactly 11 characters, and a
\* URL whose last segment is too short
\* the video references run_youtube is called with
VideoRefs == {UrlA, ElevenCharUrl, ShortIdUrl}

\* main has called run_youtube for one video; the provider holds any catalog
InitAnalyze ==
    /\ InitFn
    /\ pc = "run_youtube"
    /\ mode = "single"
    /\ args = NoArgs
    /\ video_urls = <<>>
    /\ pos = 0
    /\ expanded_urls = <<>>
    /\ idx = 0
    /\ results = NoResults
    /\ call \in [video : VideoRefs, language : Languages,
                 target : {"markdown", "slack"}, prompt_only : BOOLEAN,
                 dynamic_tags : {FALSE}, slack_thread_url : {TRUE},
                 slack_channel_name : {FALSE}, save_file : BOOLEAN]
    /\ video = NoneStr
    /\ video_title = UnknownTitle
    /\ catalog = <<>>
    /\ selected = 0
    /\ selected_language = ""
    /\ attempt = 0
    /\ alt_i = 0
    /\ fetched = 0
    /\ transcript_text = <<>>
    /\ prompt_text = <<>>
    /\ ask_site = 0
    /\ output_body = NoneStr
    /\ result = NoResult
    /\ llm_key = TRUE
    /\ yt \in {[id \in VideoIds |-> IF id = IdA THEN c ELSE <<>>] : c \in Catalogs}
    /\ files = {}
    /\ clipboard = NoneStr
    /\ posts = <<>>
    /\ log = <<>>
    /\ trace = <<>>
    /\ sleeps = 0
    /\ pieces = <<>>
    /\ unresolved = {}
    /\ faults = 0
    /\ fault_budget = MaxFaults

NextAnalyze ==
    \/ RunYoutube
    \/ GetTitle
    \/ ListTranscripts
    \/ Fetch
    \/ FetchAlternative
    \/ ListAgain
    \/ FetchAny
    \/ Ask
    \/ Manual
    \/ Llm
    \/ Deliver
    \/ Post
    \/ SingleReturn

SpecAnalyze == InitAnalyze /\ [][NextAnalyze]_vars

(***************************************************************************)
(* Claims about the string helpers                                         *)
(***************************************************************************)
ValidId(s) == Len(s) = IdLen /\ \A i \in 1..Len(s) : s[i] \in IdChars

\* C6: for every string built around a valid 11-character video ID in a
\* recognized URL shape (watch?v=ID, youtu.be/ID, embed/ID, v/ID)
\* extract_video_id returns exactly that ID, and a bare string of exactly 11
\* characters of [A-Za-z0-9_-] is returned unchanged.
C6_ExtractReturnsTheId ==
    fn_pc = "done" =>
        /\ embedded # <<>> => extracted = embedded
        /\ ValidId(url) => extracted = url

\* C7: sanitize_filename is idempotent, and a title made only of invalid
\* filename characters gives the fallback "untitled-video".
C7_SanitizeIdempotent ==
    /\ fn_pc = "twice" => resanitized = safe_title
    /\ fn_pc \in {"once", "twice"} /\ (\A i \in 1..Len(title) : title[i] \in InvalidChars)
          => safe_title = untitled_video

\* C7 witness: a title longer than max_length was truncated, the cut left a
\* trailing dash that was stripped, and the result was sanitized again.
C7_Witness ==
    /\ fn_pc = "twice"
    /\ Len(title) > max_length
    /\ Len(safe_title) < max_length
    /\ safe_title # untitled_video

AdjacentDashes(s) == \E i \in 1..(Len(s) - 1) : s[i] = "-" /\ s[i + 1] = "-"

\* C8: the result of sanitize_filename never contains two adjacent dashes
\* (every run of whitespace, underscores and dashes becomes one dash) and is
\* at most 100 characters long.
C8_SingleDashesAndLength ==
    fn_pc \in {"once", "twice"} =>
        /\ ~AdjacentDashes(safe_title)
        /\ Len(safe_title) <= max_length

(***************************************************************************)
(* Claims about the batch                                                  *)
(***************************************************************************)
\* the batch loop has run to its end
BatchDone == pc = "done" /\ mode = "batch" /\ results.total > 0

\* the videos of the log that run_youtube did, or did not, report as a success
Succeeded == {k \in 1..Len(log) : log[k].ret = "success"}
NotSucceeded == {k \in 1..Len(log) : log[k].ret # "success"}

\* C1: whatever happens while one video is processed (a failure reported by
\* run_youtube, or an exception where its result is read) is recorded as one
\* failed item and the batch goes on: at the end every video of the work
\* list has been processed and has its entry, failed counts the videos that
\* did not succeed and successful the others (so N-1 and 1 when exactly one
\* video fails), and the entries of the successful videos stand at their
\* positions with the title and the file run_youtube returned.
C1_FailureIsolated ==
    BatchDone =>
        /\ Len(log) = Len(expanded_urls)
        /\ Len(results.videos) = Len(expanded_urls)
        /\ results.total = Len(expanded_urls)
        /\ results.failed = Cardinality(NotSucceeded)
        /\ results.successful = Cardinality(Succeeded)
        /\ \A k \in NotSucceeded :
              /\ results.videos[k].status = "failed"
              /\ results.videos[k].url = expanded_urls[k]
        /\ \A k \in Succeeded :
              results.videos[k] =
                 Entry(expanded_urls[k], log[k].result.video_title, "success",
                       Absent, log[k].result.saved_file)

\* a batch of three videos is over; exactly one failed, by an exception, and
\* the two others succeeded
C1_Witness ==
    /\ BatchDone
    /\ Len(log) = 3
    /\ Cardinality(NotSucceeded) = 1
    /\ \E k \in NotSucceeded : k = 2 /\ log[k].ret = "<None>"
    /\ results.successful = 2
    /\ results.failed = 1

\* C2: the report of the batch has successful + failed <= total in every
\* state of the processing loop, and successful + failed = total once the
\* batch is complete, whatever the outcomes of the videos.
C2_CountersBounded ==
    /\ mode = "batch" => results.successful + results.failed <= results.total
    /\ mode = "batch" /\ pc = "loop" =>
          results.successful + results.failed = idx
    /\ BatchDone => results.successful + results.failed = results.total

\* a batch is complete in which one video succeeded, one was cancelled by
\* the operator and for one run_youtube returned nothing
C2_Witness ==
    /\ BatchDone
    /\ results.total = 3
    /\ \E i, j, k \in 1..Len(log) :
          /\ log[i].ret = "success"
          /\ log[j].ret = "cancelled"
          /\ log[k].ret = "<None>"
    /\ results.successful + results.failed = 3

\* no external call has been made and nothing has been written
NoSideEffects ==
    /\ trace = <<>>
    /\ log = <<>>
    /\ files = {}
    /\ clipboard = NoneStr
    /\ posts = <<>>

\* C3: a command line that asks for batch processing (two or more URLs, or
\* a playlist URL) without the file-output flag is refused before any video
\* is processed and without side effects, whatever the other options are.
C3_BatchWithoutFileRejected ==
    NeedsBatch(args.video) /\ ~args.save_file =>
        /\ pc \in {"main", "exit"}
        /\ NoSideEffects

\* C4: in the report of a batch, a video whose manual transcript the
\* operator declined to type has a status other than that of a failed video
\* and is not counted by the failed counter.
C4_CancelledIsDistinct ==
    mode = "batch" /\ pc \in {"loop", "done"} =>
        /\ \A k \in 1..Len(log) :
              log[k].ret = "cancelled" => results.videos[k].status # "failed"
        /\ results.failed =
              Cardinality({k \in 1..Len(log) :
                              log[k].ret \notin {"success", "cancelled"}})

\* the URLs the inputs expanded so far stand for, in order
\* C9: the work list is the input list with each playlist URL replaced, in
\* place, by its videos in the order of the playlist (by nothing when the
\* playlist cannot be read) and every other URL kept; the videos are
\* processed in the order of the work list and the i-th entry of the report
\* is for the i-th URL of the work list, whatever the outcomes.
C9_OrderPreserved ==
    mode = "batch" =>
        /\ Len(pieces) = pos
        /\ \A i \in 1..Len(pieces) :
              IF is_playlist_url(video_urls[i])
              THEN pieces[i] \in
                      {<<>>,
                       [k \in 1..Len(PlaylistItems(extract_playlist_id(video_urls[i])))
                            |-> HostShort \o
                                PlaylistItems(extract_playlist_id(video_urls[i]))[k]]}
              ELSE pieces[i] = <<video_urls[i]>>
        /\ expanded_urls = Flatten(pieces)
        /\ Len(results.videos) = Len(log)
        /\ pc \in {"loop", "done"} => Len(log) = idx
        /\ \A k \in 1..Len(log) :
              /\ log[k].video = expanded_urls[k]
              /\ results.videos[k].url = expanded_urls[k]

\* a batch whose second input is a playlist of two videos is complete, with
\* a failure followed by two successes
C9_Witness ==
    /\ BatchDone
    /\ video_urls = <<UrlC, PlaylistUrl1>>
    /\ expanded_urls = <<UrlC, HostShort \o IdB, HostShort \o IdA>>
    /\ Len(results.videos) = 3
    /\ results.videos[1].status = "failed"
    /\ results.videos[2].status = "success"
    /\ results.videos[3].status = "success"

\* C10: when a batch with file saving is over, the output file of every
\* video recorded as successful has been written, and no output file has
\* been written for a video recorded as failed.
C10_FileIffSuccess ==
    BatchDone =>
        \A k \in 1..Len(results.videos) :
            /\ results.videos[k].status = "success" => log[k].wrote
            /\ results.videos[k].status = "failed" => ~log[k].wrote

(***************************************************************************)
(* Claims about analyze_video                                              *)
(***************************************************************************)
\* the catalog the provider holds for the video of the call
Provided ==
    IF extract_video_id(call.video) \in VideoIds
    THEN yt[extract_video_id(call.video)] ELSE <<>>

\* the manually created transcript in the requested language
RequestedManual == Transcript(call.language, FALSE)

\* C5: whenever the catalog of the video holds a manually created
\* transcript in the requested language, the transcript whose content is
\* used for the analysis is that transcript, never one of a lower tier.
C5_ManualAlwaysUsed ==
    (\E i \in 1..Len(Provided) : Provided[i] = RequestedManual) /\ fetched # 0
        => catalog[fetched] = RequestedManual

(***************************************************************************)
(* Claims about the operator's prompt, the title and the LLM               *)
(***************************************************************************)
\* the events of the current call of run_youtube that are of one of the kinds
Happened(kinds) == \E i \in 1..Len(trace) : trace[i] \in kinds

\* analyze_video has looked for a transcript and no fetch has succeeded
NoTranscriptObtained ==
    /\ pc = "returned"
    /\ Happened({"list", "list failed"})
    /\ fetched = 0

\* C11: in a batch the operator is never prompted: a video for which no
\* automated tier gave a transcript is analysed from its title alone and is
\* not a failure on account of the missing transcript.
C11_BatchNeverPrompts ==
    mode = "batch" /\ NoTranscriptObtained =>
        /\ ~Happened({"asked", "ask failed"})
        /\ result.status \in {"failed", "cancelled"} => Happened({"llm failed"})

\* C12: when the operator accepts the prompt and types a non-empty text,
\* that text is the transcript analyze_video works on: the prompt is built
\* from it and the video does not end in the error of a missing transcript.
C12_ManualTextUsed ==
    Happened({"typed"}) =>
        /\ transcript_text = ManualText
        /\ prompt_text = BuildPrompt(ManualText)
        /\ output_body # ErrNoData

\* C13: a missing LLM API key is found before the batch loop starts: with
\* the key missing no video of a batch is processed and no failure of a
\* video is recorded.
C13_MissingKeyFatalAtStartup ==
    mode = "batch" /\ ~llm_key =>
        /\ idx = 0
        /\ log = <<>>
        /\ results.failed = 0

\* C14: an error raised by the LLM call for a video is caught: run_youtube
\* returns a failed result that carries the error message, the batch records
\* it for that video, and the other videos of the batch are processed.
C14_LlmErrorCaught ==
    /\ pc = "returned" /\ Happened({"llm failed"}) =>
          result = Result("failed", video_title, ErrLlm, Absent, Absent)
    /\ mode = "batch" =>
          \A k \in 1..Len(log) :
              log[k].result.error = ErrLlm =>
                  /\ k <= Len(results.videos)
                  /\ results.videos[k].status = "failed"
                  /\ results.videos[k].error = ErrLlm
                  /\ results.videos[k].url = expanded_urls[k]
                  /\ BatchDone => Len(log) = Len(expanded_urls)

\* a batch is over in which the LLM call failed for the first video and the
\* second video succeeded
C14_Witness ==
    /\ BatchDone
    /\ Len(log) >= 2
    /\ log[1].result.error = ErrLlm
    /\ results.videos[1].error = ErrLlm
    /\ log[2].ret = "success"
    /\ results.successful >= 1

\* the title lookup of the current call has failed
TitleLookupFailed == Happened({"title raised", "title error"})

\* C15 as stated: after any failure of the title lookup the title
\* analyze_video reports is the placeholder "Unknown Title".
C15_AlwaysUnknownTitle ==
    TitleLookupFailed => video_title = UnknownTitle

\* C15, amended: a failure of the title lookup never blocks the analysis:
\* analyze_video goes on to the transcript step, and what run_youtube returns
\* carries the placeholder, which is "Unknown Title" when get_video_title
\* raised (the API key is missing) and "Untitled Video" when the API call
\* failed.
C15_TitleFailureDoesNotBlock ==
    TitleLookupFailed =>
        /\ Happened({"title raised"}) => video_title = UnknownTitle
        /\ Happened({"title error"}) => video_title = UntitledVideo
        /\ pc # "title"
        /\ pc = "returned" =>
              /\ Happened({"list", "list failed"})
              /\ result # NoneResult => result.video_title = video_title

\* the API call of the title lookup failed, the transcript was fetched, the
\* LLM answered and the video succeeded under the title "Untitled Video"
C15_Witness ==
    /\ pc = "returned"
    /\ Happened({"title error"})
    /\ Happened({"fetch"})
    /\ Happened({"llm"})
    /\ result.status = "success"
    /\ result.video_title = UntitledVideo

(***************************************************************************)
(* Claims about the expansion of playlists and the validation of a video   *)
(***************************************************************************)
\* C16: a playlist URL that cannot be read contributes no video and does not
\* stop the batch: the expansion goes through every input URL, each URL that
\* is no playlist enters the work list as it is, and every video of the work
\* list is processed.
C16_UnresolvedPlaylistSkipped ==
    mode = "batch" =>
        /\ pc # "expand" => Len(pieces) = Len(video_urls)
        /\ \A i \in 1..Len(pieces) :
              /\ i \in unresolved => pieces[i] = <<>>
              /\ ~is_playlist_url(video_urls[i]) => pieces[i] = <<video_urls[i]>>
        /\ expanded_urls = Flatten(pieces)
        /\ BatchDone => Len(log) = Len(expanded_urls)

\* a batch of a video, a playlist that could not be read and another video
\* is over, and both videos have been processed
C16_Witness ==
    /\ BatchDone
    /\ video_urls = <<UrlC, PlaylistUrl2, UrlA>>
    /\ unresolved = {2}
    /\ expanded_urls = <<UrlC, UrlA>>
    /\ Len(log) = 2
    /\ log[2].video = UrlA

\* C17: run_youtube goes on with a video reference only if the ID extracted
\* from it is exactly 11 characters of [A-Za-z0-9_-]; with any other
\* reference it makes no call (LLM set-up, title, transcript) and rejects it.
C17_OnlyValidIdsAccepted ==
    video # NoneStr /\ ~ValidId(extract_video_id(video)) =>
        \A i \in 1..Len(trace) : trace[i] = "rejected"

\* C18: when the operator declines to type a manual transcript, run_youtube
\* returns the status cancelled, never failed, in every mode.
C18_DeclinedIsCancelled ==
    pc = "returned" /\ Happened({"declined"}) => result.status = "cancelled"

(***************************************************************************)
(* Claims about the retries                                                *)
(***************************************************************************)
\* the positions of the trace at which the content of the selected
\* transcript was fetched, with or without success
FetchAttempts == {i \in 1..Len(trace) : trace[i] \in {"fetch", "fetch failed"}}

\* C19: the content of the selected transcript is fetched at most 3 times;
\* every attempt but the first comes right after a failed attempt and the
\* wait that follows it; nothing is fetched after a successful attempt; and
\* an alternative transcript is fetched only after three failed attempts.
C19_AtMostThreeAttempts ==
    /\ Cardinality(FetchAttempts) <= 3
    /\ \A i \in FetchAttempts :
          /\ (\E j \in FetchAttempts : j < i) =>
                /\ i > 2
                /\ trace[i - 1] = "sleep"
                /\ trace[i - 2] = "fetch failed"
          /\ trace[i] = "fetch" =>
                \A j \in (i + 1)..Len(trace) :
                    trace[j] \notin {"fetch", "fetch failed", "sleep",
                                     "alternative", "alternative failed"}
    /\ \A i \in 1..Len(trace) :
          trace[i] = "sleep" => i > 1 /\ trace[i - 1] = "fetch failed"
    /\ \A i \in 1..Len(trace) :
          trace[i] \in {"alternative", "alternative failed"} =>
              Cardinality({j \in FetchAttempts :
                              j < i /\ trace[j] = "fetch failed"}) = 3

\* the first two attempts failed and the third gave the transcript
C19_Witness ==
    /\ Cardinality(FetchAttempts) = 3
    /\ \E i \in FetchAttempts :
          /\ trace[i] = "fetch"
          /\ trace[i - 1] = "sleep"
          /\ trace[i - 2] = "fetch failed"
          /\ trace[i - 3] = "sleep"
          /\ trace[i - 4] = "fetch failed"
    /\ fetched = selected
    /\ pc = "returned"
    /\ result.status = "success"

\* C20: once the three attempts on the selected transcript have failed, every
\* other transcript of the catalog, those of the same language included, is
\* fetched once until one succeeds: the operator is asked only after all of
\* them have failed, and a transcript fetched in this way is another one than
\* the selected one and gives the language used.
C20_EveryOtherTranscriptTried ==
    /\ pc = "ask" /\ ask_site = 1 =>
          Cardinality({i \in 1..Len(trace) : trace[i] = "alternative failed"})
              = Len(catalog) - 1
    /\ Happened({"alternative"}) =>
          /\ fetched # 0
          /\ fetched # selected
          /\ selected_language = catalog[fetched].language_code

(***************************************************************************)
(* Claims about a single video                                             *)
(***************************************************************************)
\* C21: for a single video, whenever no automated tier gave a transcript
\* (the catalog is empty, the transcripts are disabled, or every fetch
\* failed) the operator is prompted for a manual transcript before
\* analyze_video returns.
C21_OperatorPrompted ==
    mode = "single" /\ NoTranscriptObtained =>
        Happened({"asked", "ask failed"})

ThreeNewlines == <<Newline, Newline, Newline>>

\* C22: whatever text the LLM returned, the analysis after post-processing
\* holds no run of three or more newlines and no "**Video Analysis:**".
C22_NoBlankRunNoHeader ==
    fn_pc = "processed" =>
        /\ ~Contains(ThreeNewlines, analysis)
        /\ ~Contains(HeaderChars, analysis)

(***************************************************************************)
(* Claims about the batch report                                           *)
(***************************************************************************)
\* C23: the report of a batch has exactly one entry per video of the work
\* list, whatever the outcome; every entry records the url, the title and
\* the status of its video, and the error of a failed one; the number of
\* entries is always successful + failed.
C23_OneFullEntryPerVideo ==
    /\ mode = "batch" =>
           Len(results.videos) = results.successful + results.failed
    /\ BatchDone =>
           /\ Len(results.videos) = Len(expanded_urls)
           /\ \A i \in 1..Len(results.videos) :
                  LET e == results.videos[i]
                  IN  /\ e.url = expanded_urls[i]
                      /\ e.title # Absent
                      /\ e.status \in {"success", "failed"}
                      /\ e.status = "failed" => e.error # Absent

\* C24: the batch pauses between the processing of every two consecutive
\* videos, also when the earlier of the two failed or raised, and does not
\* pause after the last video: once the idx-th video is recorded the batch
\* has paused idx times, or one time less when that video was the last.
C24_PauseBetweenVideos ==
    mode = "batch" /\ pc = "loop" /\ idx > 0 =>
        sleeps = Min({idx, Len(expanded_urls) - 1})

(***************************************************************************)
(* Claims about the delivery                                               *)
(***************************************************************************)
\* C25: a failure while posting to the Slack thread is never raised: post_to_slack
\* returns success = false with the error, and run_youtube returns a result
\* of status failed that carries this error; nothing is posted.
C25_PostFailureReported ==
    pc = "returned" /\ Happened({"post failed"}) =>
        /\ result # NoneResult
        /\ result.status = "failed"
        /\ result.error = SlackError
        /\ posts = <<>>

C25_Witness ==
    /\ pc = "returned"
    /\ call.slack_thread_url
    /\ Happened({"post failed"})
    /\ result.status = "failed"

(***************************************************************************)
(* Termination of the batch                                                *)
(***************************************************************************)
\* the fetches of transcript content made for the current video
ContentFetches ==
    {i \in 1..Len(trace) :
        trace[i] \in {"fetch", "fetch failed", "alternative",
                      "alternative failed", "fetch any", "fetch any failed"}}

OtherTranscripts == IF catalog = <<>> THEN 0 ELSE Len(catalog) - 1

\* C26: provided every external call and every prompt returns, a batch
\* terminates; every video of the work list has then been processed exactly
\* once, in order; for each video the selected transcript is fetched at most
\* 3 times and the other transcripts at most once each; and the summary is
\* reached only after all videos have been processed.
C26_BatchTerminates ==
    /\ (mode = "batch") ~> (mode = "batch" /\ pc = "done")
    /\ [](mode = "batch" /\ pc = "done" =>
             /\ idx = Len(expanded_urls)
             /\ Len(log) = Len(expanded_urls)
             /\ \A i \in 1..Len(log) : log[i].video = expanded_urls[i])
    /\ [](mode = "batch" =>
             /\ Len(log) <= idx
             /\ idx <= Len(log) + 1
             /\ Cardinality(FetchAttempts) <= Attempts
             /\ Cardinality(ContentFetches) <= Attempts + OtherTranscripts)

\* a batch of several videos has ended, after three fetches for one of them
C26_Witness ==
    /\ mode = "batch"
    /\ pc = "done"
    /\ Len(expanded_urls) > 1
    /\ Len(log) = Len(expanded_urls)
    /\ Cardinality(FetchAttempts) = Attempts

(***************************************************************************)
(* Claims about what run_youtube delivers and returns                      *)
(***************************************************************************)
\* C27: a batch, which writes its analyses to files, leaves the clipboard as
\* it was.
C27_BatchKeepsClipboard == mode = "batch" => clipboard = NoneStr

\* C28: run_youtube reports failed or cancelled only when the transcript,
\* the LLM call or the delivery failed or the operator declined: once the LLM
\* has returned a text that is not blank, and the delivery does not fail,
\* the text is delivered and the result is success, whatever the text says.
C28_ReturnedTextDelivered ==
    /\ pc = "returned"
    /\ Happened({"llm"})
    /\ ~IsBlank(output_body)
    /\ ~Happened({"post failed"})
    /\ result # NoneResult
    => /\ result.status = "success"
       /\ Happened({"copied", "posted"})

\* C29: on every path, validation errors and unexpected exceptions included,
\* run_youtube returns a result whose status is success, cancelled or failed.
C29_AlwaysAStatus ==
    pc = "returned" =>
        /\ result # NoneResult
        /\ result.status \in {"success", "cancelled", "failed"}

\* C30: with target slack and a channel name instead of a thread URL, an
\* analysis that was generated is posted to Slack and run_youtube returns
\* success, unless the Slack API refuses the post.
C30_ChannelPostSucceeds ==
    /\ pc = "returned"
    /\ call.target = "slack"
    /\ call.slack_channel_name
    /\ ~call.slack_thread_url
    /\ Happened({"llm"})
    /\ Judged(video_title, output_body) = NoResult
    => /\ result.status = "success"
       /\ posts # <<>>

================================================================
